---- MODULE Spec2Model ----
(***************************************************************************)
(* Model of the Medication Information API (src/main.py): the start-up     *)
(* read of GEMINI_API_KEY, the POST /medication-info handler together with *)
(* get_medication_info (outbound call, envelope extraction,                *)
(* ast.literal_eval of the model's text, response_model validation), and   *)
(* the GET /health handler.                                                *)
(*                                                                         *)
(* Python values (decoded JSON and decoded literals) are tagged records    *)
(* [t, v].  A text is a sequence of lexical tokens [k, v].                 *)
(***************************************************************************)
EXTENDS Integers, Sequences, FiniteSets, TLC

(* ------------------------------ bounds -------------------------------- *)
\* most whitespace tokens put on each side of the model's text
MaxPad == 1
\* most tokens cut from the end of the rendered literal (a truncated reply)
MaxCut == 2
\* most requests (of either endpoint) handled in one run
MaxRequests == 2

(* --------------------------- Python values ---------------------------- *)
S(x) == [t |-> "str", v |-> x]
\* a str held as its token sequence (the model's free text)
Text(toks) == [t |-> "text", v |-> toks]
N(x) == [t |-> "num", v |-> x]
L(x) == [t |-> "list", v |-> x]
D(x) == [t |-> "dict", v |-> x]
None == [t |-> "null", v |-> ""]
EmptyMap == [k \in {} |-> None]
IsStr(x) == x.t \in {"str", "text"}

(* ------------------------------ tokens -------------------------------- *)
Tok(k, v) == [k |-> k, v |-> v]
LBRACE == Tok("punct", "{")
RBRACE == Tok("punct", "}")
COLON == Tok("punct", ":")
COMMA == Tok("punct", ",")
SP == Tok("ws", " ")
NL == Tok("ws", "\n")
\* the markdown code-fence marker (three backticks)
FENCE == Tok("fence", "fence")
TAG == Tok("name", "python")
IsWs(tok) == tok.k = "ws"

\* the token of a literal value, as Python's repr writes it
Lit(x) == IF x.t = "str" THEN Tok("str", x.v) ELSE Tok("num", x.v)

(* ----------------------- the three record fields ---------------------- *)
\* class MedicationResponse
MedicationResponse == <<"Medication", "specialization", "Influence">>
Required == {MedicationResponse[i] : i \in 1..Len(MedicationResponse)}

(* ------------------------------ str.strip ----------------------------- *)
RECURSIVE lstrip(_)
lstrip(s) == IF s # <<>> /\ IsWs(Head(s)) THEN lstrip(Tail(s)) ELSE s

RECURSIVE rstrip(_)
rstrip(s) ==
    IF s # <<>> /\ IsWs(s[Len(s)]) THEN rstrip(SubSeq(s, 1, Len(s) - 1)) ELSE s

strip(s) == rstrip(lstrip(s))

(* --------------------------- ast.literal_eval ------------------------- *)
\* Result of a parse step: ok, the value, and the position after it.
Fail == [ok |-> FALSE, val |-> None, pos |-> 0]
Ok(x, p) == [ok |-> TRUE, val |-> x, pos |-> p]

\* the tokenizer skips blanks between tokens, and newlines inside brackets
RECURSIVE SkipWs(_, _)
SkipWs(s, i) == IF i <= Len(s) /\ IsWs(s[i]) THEN SkipWs(s, i + 1) ELSE i

\* a later duplicate key replaces the earlier one
Put(m, k, x) == [j \in DOMAIN m \cup {k} |-> IF j = k THEN x ELSE m[j]]

RECURSIVE ParseValue(_, _)
RECURSIVE ParsePairs(_, _, _)

\* one literal starting at position i: a string, a number or a dict display.
\* These are the literal forms the reply texts of Scenarios are made of;
\* any other token (a fence marker, a bare name) is no literal.
ParseValue(s, i) ==
    LET j == SkipWs(s, i) IN
    IF j > Len(s) THEN Fail
    ELSE IF s[j].k = "str" THEN Ok(S(s[j].v), j + 1)
    ELSE IF s[j].k = "num" THEN Ok(N(s[j].v), j + 1)
    ELSE IF s[j] = LBRACE THEN ParsePairs(s, j + 1, EmptyMap)
    ELSE Fail

\* the inside of a dict display after "{" or after a ","
ParsePairs(s, i, acc) ==
    LET j == SkipWs(s, i) IN
    IF j > Len(s) THEN Fail
    ELSE IF s[j] = RBRACE THEN Ok(D(acc), j + 1)
    ELSE
      LET key == ParseValue(s, j) IN
      IF ~key.ok \/ key.val.t = "dict" THEN Fail
      ELSE
        LET c == SkipWs(s, key.pos) IN
        IF c > Len(s) \/ s[c] # COLON THEN Fail
        ELSE
          LET val == ParseValue(s, c + 1) IN
          IF ~val.ok THEN Fail
          ELSE
            LET e == SkipWs(s, val.pos)
                acc2 == Put(acc, key.val, val.val)
            IN
            IF e > Len(s) THEN Fail
            ELSE IF s[e] = COMMA THEN ParsePairs(s, e + 1, acc2)
            ELSE IF s[e] = RBRACE THEN Ok(D(acc2), e + 1)
            ELSE Fail

\* literal_eval's own node_or_string.lstrip(" \t")
RECURSIVE lstrip_blanks(_)
lstrip_blanks(s) == IF s # <<>> /\ Head(s) = SP THEN lstrip_blanks(Tail(s)) ELSE s

\* leading empty lines are no tokens for the parser
RECURSIVE SkipLines(_)
SkipLines(s) == IF s # <<>> /\ Head(s) = NL THEN SkipLines(Tail(s)) ELSE s

\* literal_eval as it would be if a failed parse gave an empty dict
literal_eval_lenient(s) ==
    LET b == SkipLines(lstrip_blanks(s))
        r == ParseValue(b, 1)
    IN
    IF b # <<>> /\ ~IsWs(b[1]) /\ r.ok /\ SkipWs(b, r.pos) = Len(b) + 1
    THEN [ok |-> TRUE, val |-> r.val]
    ELSE [ok |-> TRUE, val |-> D(EmptyMap)]

\* ast.literal_eval(raw_text): the whole text must be one literal.  A first
\* token that is still indented is an IndentationError; whitespace after the
\* literal is accepted.
literal_eval(s) ==
    LET b == SkipLines(lstrip_blanks(s))
        r == ParseValue(b, 1)
    IN
    IF b # <<>> /\ ~IsWs(b[1]) /\ r.ok /\ SkipWs(b, r.pos) = Len(b) + 1
    THEN [ok |-> TRUE, val |-> r.val]
    ELSE [ok |-> FALSE, val |-> None]

(* --------------------- subscripting, as Python does ------------------- *)
Raise(cls) == [exc |-> cls, val |-> None]
Return(x) == [exc |-> "none", val |-> x]

\* c[key], key a str or the index 0
GetItem(c, key) ==
    IF c.t = "dict"
    THEN IF key \in DOMAIN c.v THEN Return(c.v[key]) ELSE Raise("KeyError")
    ELSE IF c.t \in {"list", "text"}
    THEN IF key.t # "num" THEN Raise("TypeError")
         ELSE IF c.v = <<>> THEN Raise("IndexError")
         ELSE IF c.t = "list" THEN Return(c.v[1])
         ELSE Return(Text(<<c.v[1]>>))
    ELSE Raise("TypeError")

\* data['candidates'][0]['content']['parts'][0]['text']
TextPath ==
    <<S("candidates"), N("0"), S("content"), S("parts"), N("0"), S("text")>>

RECURSIVE Subscript(_, _)
Subscript(c, path) ==
    IF path = <<>> THEN Return(c)
    ELSE LET r == GetItem(c, Head(path)) IN
         IF r.exc # "none" THEN r ELSE Subscript(r.val, Tail(path))

\* the try block of lines 95-101: only KeyError and IndexError are caught
ExtractText(data) ==
    LET r == Subscript(data, TextPath) IN
    IF r.exc # "none" THEN r
    ELSE IF r.val.t # "text" THEN Raise("AttributeError")
    ELSE Return(Text(strip(r.val.v)))

(* ----------------------------- messages ------------------------------- *)
ENDPOINT ==
    "https://generativelanguage.googleapis.com/v1beta/models/gemini-2.0-flash:generateContent"
NoMsg == [kind |-> "", url |-> <<>>, data |-> None]
\* str(e) of a requests exception: names the request URL, query included, or not
RequestErrorText(key, up) ==
    [kind |-> up.transport,
     url |-> IF up.names_url THEN <<ENDPOINT, "?key=", key>> ELSE <<>>,
     data |-> None]
Failed(cls, prefix, cause) ==
    [exc |-> cls, val |-> None, msg |-> [prefix |-> prefix, cause |-> cause]]
NoError == [prefix |-> "", cause |-> NoMsg]

(* ------------------------- get_medication_info ------------------------ *)
\* the outbound POST: params = {'key': GEMINI_API_KEY}, timeout=10
OutboundCall(key, med_name) ==
    [url |-> ENDPOINT, key |-> key, prompt |-> med_name]

get_medication_info(key, med_name, up) ==
    IF up.transport # "ok"
    THEN Failed("RuntimeError", "API request failed: ", RequestErrorText(key, up))
    ELSE IF ~up.json
    THEN Failed("JSONDecodeError", "", NoMsg)
    ELSE
      LET t == ExtractText(up.data) IN
      IF t.exc \in {"KeyError", "IndexError"}
      THEN Failed("RuntimeError", "Unexpected API response format: ",
                  [kind |-> "data", url |-> <<>>, data |-> up.data])
      ELSE IF t.exc # "none"
      THEN Failed(t.exc, "", NoMsg)
      ELSE
        LET info == literal_eval(t.val.v) IN
        IF info.ok
        THEN [exc |-> "none", val |-> info.val, msg |-> NoError]
        ELSE Failed("ValueError", "Failed to parse dict from model output: ",
                    [kind |-> "raw_text", url |-> <<>>, data |-> t.val])

(* ------------------ response_model=MedicationResponse ----------------- *)
\* pydantic's str field: version 1 turns a number into its text, version 2
\* refuses it
StrField(pyd, x) ==
    IF x.t = "str" THEN [ok |-> TRUE, val |-> x.v]
    ELSE IF x.t = "num" /\ pyd = 1 THEN [ok |-> TRUE, val |-> x.v]
    ELSE [ok |-> FALSE, val |-> ""]

\* ValidateResponse as it would be if the returned dict were sent unfiltered
ValidateResponse_unfiltered(pyd, info) ==
    IF info.t # "dict" THEN [ok |-> FALSE, body |-> <<>>]
    ELSE IF \E f \in Required :
              S(f) \notin DOMAIN info.v \/ ~StrField(pyd, info.v[S(f)]).ok
    THEN [ok |-> FALSE, body |-> <<>>]
    ELSE [ok |-> TRUE,
          body |-> [f \in {k.v : k \in DOMAIN info.v} |-> info.v[S(f)].v]]

\* validation and field filtering of the handler's return value
ValidateResponse(pyd, info) ==
    IF info.t # "dict" THEN [ok |-> FALSE, body |-> <<>>]
    ELSE IF \E f \in Required :
              S(f) \notin DOMAIN info.v \/ ~StrField(pyd, info.v[S(f)]).ok
    THEN [ok |-> FALSE, body |-> <<>>]
    ELSE [ok |-> TRUE,
          body |-> [f \in Required |-> StrField(pyd, info.v[S(f)]).val]]

(* ------------------------- POST /medication-info ---------------------- *)
BadRequest == 400
Response(status, body, detail) ==
    [status |-> status, body |-> body, detail |-> detail]

medication_info(key, pyd, med_name, up) ==
    LET r == get_medication_info(key, med_name, up) IN
    IF r.exc # "none"
    THEN Response(BadRequest, <<>>,
                  [prefix |-> "Could not retrieve medication information: ",
                   err |-> r.msg])
    ELSE
      LET out == ValidateResponse(pyd, r.val) IN
      IF out.ok
      THEN Response(200, out.body, [prefix |-> "", err |-> NoError])
      ELSE Response(500, <<>>, [prefix |-> "Internal Server Error", err |-> NoError])

(* ------------------------------ GET /health --------------------------- *)
health_check ==
    Response(200, [k \in {"status", "version"} |->
                     IF k = "status" THEN "healthy" ELSE "1.0.0"],
             [prefix |-> "", err |-> NoError])

(* ------------------------------ start-up ------------------------------ *)
\* get_required_env as it would be if it tested "value is None"
get_required_env_unset_only(e) ==
    IF ~e.set
    THEN [ok |-> FALSE, value |-> ""]
    ELSE [ok |-> TRUE, value |-> e.value]

\* get_required_env: os.getenv gives None (unset) or the string
get_required_env(e) ==
    IF ~e.set \/ e.value = ""
    THEN [ok |-> FALSE, value |-> ""]
    ELSE [ok |-> TRUE, value |-> e.value]

(* ------------------------- inputs of the model ------------------------ *)
Keys == {"AIza-1", "AIza-2"}
Environments ==
    {[set |-> FALSE, value |-> ""]} \cup {[set |-> TRUE, value |-> k] : k \in Keys \cup {""}}
MedNames == {"Glucophage", ""}
FieldVals == {S("Diabetes"), N("5")}
ExtraKeys == {"note"}
KeyOrder == MedicationResponse \o <<"note">>
\* the mappings the model's text may denote
Mappings == UNION {[K -> FieldVals] : K \in SUBSET (Required \cup ExtraKeys)}

RECURSIVE RenderPairs(_, _, _)
RenderPairs(m, keys, first) ==
    IF keys = <<>> THEN <<>>
    ELSE IF Head(keys) \notin DOMAIN m THEN RenderPairs(m, Tail(keys), first)
    ELSE (IF first THEN <<>> ELSE <<COMMA, SP>>)
         \o <<Tok("str", Head(keys)), COLON, SP, Lit(m[Head(keys)])>>
         \o RenderPairs(m, Tail(keys), FALSE)

\* the dict literal of mapping m, as the prompt's example writes it
Render(m) == <<LBRACE>> \o RenderPairs(m, KeyOrder, TRUE) \o <<RBRACE>>
\* a reply truncated by n tokens
Cut(s, n) == IF n >= Len(s) THEN <<>> ELSE SubSeq(s, 1, Len(s) - n)
Fences == {"none", "bare", "tagged"}
Wrap(s, fence) ==
    IF fence = "none" THEN s
    ELSE IF fence = "bare" THEN <<FENCE, NL>> \o s \o <<NL, FENCE>>
    ELSE <<FENCE, TAG, NL>> \o s \o <<NL, FENCE>>
Pad(s, l, r) == [i \in 1..l |-> SP] \o s \o [i \in 1..r |-> NL]

\* how a reply text was made from a mapping
Gens ==
    [kind : {"text"}, m : Mappings, cut : 0..MaxCut, fence : Fences,
     padl : 0..MaxPad, padr : 0..MaxPad]
TextOf(g) == Pad(Wrap(Cut(Render(g.m), g.cut), g.fence), g.padl, g.padr)

\* the provider's envelope around a text value
Nest(level, x) ==
    LET l5 == IF level = 6 THEN D([k \in {S("text")} |-> x]) ELSE x
        l4 == IF level >= 5 THEN L(<<l5>>) ELSE l5
        l3 == IF level >= 4 THEN D([k \in {S("parts")} |-> l4]) ELSE l4
        l2 == IF level >= 3 THEN D([k \in {S("content")} |-> l3]) ELSE l3
        l1 == IF level >= 2 THEN L(<<l2>>) ELSE l2
    IN  IF level >= 1 THEN D([k \in {S("candidates")} |-> l1]) ELSE l1
Envelope(text) == Nest(6, Text(text))
\* what may stand where the envelope's shape expects something else
Defects ==
    {None, N("5"), Text(<<>>), Text(<<Tok("name", "abc")>>), L(<<>>), D(EmptyMap),
     L(<<None>>)}
Levels == 0..6

UpOk(data) == [transport |-> "ok", names_url |-> FALSE, json |-> TRUE, data |-> data]
NotJson == [transport |-> "ok", names_url |-> FALSE, json |-> FALSE, data |-> None]
\* raise_for_status always names the URL; a connection error or a connect
\* timeout names it, a read timeout does not
Failures ==
    {[transport |-> t, names_url |-> b, json |-> FALSE, data |-> None] :
        t \in {"ConnectionError", "Timeout", "HTTPError"}, b \in BOOLEAN}
    \ {[transport |-> "HTTPError", names_url |-> FALSE, json |-> FALSE, data |-> None]}

Scenarios ==
    {[gen |-> g, up |-> UpOk(Envelope(TextOf(g)))] : g \in Gens}
    \cup {[gen |-> [kind |-> "envelope", level |-> l, defect |-> d],
           up |-> UpOk(Nest(l, d))] : l \in Levels, d \in Defects}
    \cup {[gen |-> [kind |-> "notjson"], up |-> NotJson]}
    \cup {[gen |-> [kind |-> "failure"], up |-> f] : f \in Failures}

(* ------------------------------- state -------------------------------- *)
VARIABLES
    env,             \* the process environment's GEMINI_API_KEY
    pydantic,        \* major version of the installed pydantic
    proc,            \* "loading", "serving" or "failed"
    GEMINI_API_KEY,  \* the module global ("" while unbound)
    last,            \* the endpoint whose response awaits sending, or "none"
    req,             \* the request being answered and the upstream's reaction
    gen,             \* how the upstream's reply was made
    resp,            \* the response of the handler
    outbound,        \* the outbound calls made so far
    delivered        \* number of responses sent

vars == <<env, pydantic, proc, GEMINI_API_KEY, last, req, gen, resp, outbound,
          delivered>>

NoReq == [med_name |-> "", up |-> NotJson]
NoGen == [kind |-> "none"]
NoResp == Response(0, <<>>, [prefix |-> "", err |-> NoError])

Init ==
    /\ env \in Environments
    /\ pydantic \in {1, 2}
    /\ proc = "loading"
    /\ GEMINI_API_KEY = ""
    /\ last = "none"
    /\ req = NoReq
    /\ gen = NoGen
    /\ resp = NoResp
    /\ outbound = <<>>
    /\ delivered = 0

\* module import: lines 33-38
Startup ==
    /\ proc = "loading"
    /\ LET r == get_required_env(env) IN
       IF r.ok
       THEN proc' = "serving" /\ GEMINI_API_KEY' = r.value
       ELSE proc' = "failed" /\ UNCHANGED GEMINI_API_KEY
    /\ UNCHANGED <<env, pydantic, last, req, gen, resp, outbound, delivered>>

Idle == proc = "serving" /\ last = "none" /\ delivered < MaxRequests

\* POST /medication-info with the upstream reacting as scenario sc says
MedicationInfo ==
    /\ Idle
    /\ \E name \in MedNames, sc \in Scenarios :
        /\ req' = [med_name |-> name, up |-> sc.up]
        /\ gen' = sc.gen
        /\ outbound' = Append(outbound, OutboundCall(GEMINI_API_KEY, name))
        /\ resp' = medication_info(GEMINI_API_KEY, pydantic, name, sc.up)
    /\ last' = "medication-info"
    /\ UNCHANGED <<env, pydantic, proc, GEMINI_API_KEY, delivered>>

\* GET /health as it would be if it probed the upstream
HealthCheck_probing ==
    /\ Idle
    /\ resp' = health_check
    /\ last' = "health"
    /\ outbound' = Append(outbound, OutboundCall(GEMINI_API_KEY, ""))
    /\ UNCHANGED <<env, pydantic, proc, GEMINI_API_KEY, req, gen, delivered>>

\* GET /health
HealthCheck ==
    /\ Idle
    /\ resp' = health_check
    /\ last' = "health"
    /\ UNCHANGED <<env, pydantic, proc, GEMINI_API_KEY, req, gen, outbound,
                   delivered>>

\* the server sends the response and is ready for the next request
SendResponse ==
    /\ last # "none"
    /\ delivered' = delivered + 1
    /\ last' = "none"
    /\ req' = NoReq
    /\ gen' = NoGen
    /\ resp' = NoResp
    /\ UNCHANGED <<env, pydantic, proc, GEMINI_API_KEY, outbound>>

Next == Startup \/ MedicationInfo \/ HealthCheck \/ SendResponse

Spec == Init /\ [][Next]_vars

TypeOK ==
    /\ proc \in {"loading", "serving", "failed"}
    /\ last \in {"none", "medication-info", "health"}
    /\ delivered \in 0..MaxRequests
    /\ Len(outbound) <= MaxRequests

(* ----------------------- vocabulary of the claims --------------------- *)
Answered == last = "medication-info"
\* the reply text is the intact, unfenced literal of gen.m (blanks around it)
PlainText == gen.kind = "text" /\ gen.cut = 0 /\ gen.fence = "none"
\* gen.m is a well-formed record: the three fields, each a string
WellFormed(m) == Required \subseteq DOMAIN m /\ \A f \in Required : m[f].t = "str"
RecordOf(m) == [f \in Required |-> m[f].v]
ClientError == 400..499
ServerError == 500..599
\* what get_medication_info did with the request being answered
Interpreted == get_medication_info(GEMINI_API_KEY, req.med_name, req.up)
ParseFailed(r) ==
    r.status \in ClientError /\ r.body = <<>>
    /\ r.detail.err.prefix = "Failed to parse dict from model output: "

(* C1: a reply text that decodes to a mapping with string-valued Medication, *)
(* specialization and Influence (and any extra keys) is answered with       *)
(* success and a record of exactly those three fields with the decoded      *)
(* values.                                                                  *)
C1_RecordReturned ==
    (Answered /\ PlainText /\ WellFormed(gen.m)) =>
        /\ resp.status = 200
        /\ DOMAIN resp.body = Required
        /\ resp.body = RecordOf(gen.m)

C1_Witness ==
    /\ Answered /\ PlainText /\ WellFormed(gen.m)
    /\ "note" \in DOMAIN gen.m
    /\ gen.padl > 0 /\ gen.padr > 0
    /\ resp.status = 200 /\ resp.body = RecordOf(gen.m)

(* C2: a well-formed record text wrapped in markdown code fences (with or   *)
(* without a language tag, with whitespace around) is answered exactly as   *)
(* the unwrapped text is.                                                   *)
C2_FencedAsUnwrapped ==
    (Answered /\ gen.kind = "text" /\ gen.cut = 0 /\ WellFormed(gen.m)) =>
        resp = medication_info(GEMINI_API_KEY, pydantic, req.med_name,
                               UpOk(Envelope(Render(gen.m))))

(* C3: a reply text that decodes to a mapping lacking one of the three      *)
(* fields fails as a parse error answered in the 4xx class, and no record   *)
(* is returned.                                                             *)
C3_MissingFieldsClientError ==
    (Answered /\ PlainText /\ ~(Required \subseteq DOMAIN gen.m)) =>
        /\ resp.status \in ClientError
        /\ resp.body = <<>>

(* C4: a reply text whose mapping holds a non-string value in one of the    *)
(* three fields fails in the interpretation, and the value is never         *)
(* accepted or converted into a string of a returned record.                *)
C4_NonStringRejected ==
    (Answered /\ PlainText /\ Required \subseteq DOMAIN gen.m
       /\ \E f \in Required : gen.m[f].t # "str") =>
        /\ Interpreted.exc # "none"
        /\ resp.status # 200
        /\ resp.body = <<>>

(* C5: a reply text that is no literal (truncated, empty, a bare word)      *)
(* fails as the malformed-text parse error: no record, and a 4xx answer.    *)
Undecodable ==
    \/ gen.kind = "text" /\ gen.cut > 0
    \/ gen.kind = "envelope" /\ gen.level = 6 /\ gen.defect.t = "text"
C5_MalformedClientError ==
    (Answered /\ Undecodable) =>
        /\ ParseFailed(resp)
        /\ Interpreted.exc = "ValueError"

C5_Witness ==
    /\ Answered /\ gen.kind = "text" /\ gen.cut = 1 /\ gen.fence = "none"
    /\ WellFormed(gen.m)
    /\ resp.status = BadRequest /\ ParseFailed(resp)

(* C6: a failed outbound call (network error, timeout, non-success status)  *)
(* is answered with a 5xx upstream failure, unlike the 4xx of parse errors. *)
C6_UpstreamFailureStatus ==
    (Answered /\ req.up.transport # "ok") => resp.status \in ServerError

(* C7: an envelope without candidates[0].content.parts[0].text holding a    *)
(* string fails with the unexpected-response-shape error, surfaced as an    *)
(* upstream failure, and the text is never parsed.                          *)
BadEnvelope == gen.kind = "envelope" /\ ~(gen.level = 6 /\ gen.defect.t = "text")
C7_UnexpectedShapeError ==
    (Answered /\ BadEnvelope) =>
        /\ resp.detail.err.prefix = "Unexpected API response format: "
        /\ resp.status \in ServerError
        /\ resp.body = <<>>

(* C8: an error response is the same whatever the API key is: the key (and  *)
(* the request URL holding it) is in no error payload.                      *)
C8_ErrorIndependentOfKey ==
    (Answered /\ resp.status # 200) =>
        \A k \in Keys :
            medication_info(k, pydantic, req.med_name, req.up) = resp

(* C9: the API key is read once at start-up and start-up fails when it is   *)
(* unset or empty: while the service handles requests the key is a          *)
(* non-empty string that no longer changes, and every outbound call         *)
(* carries it.                                                              *)
C9_KeyConfigured ==
    /\ (proc = "serving" => env.set /\ GEMINI_API_KEY = env.value /\ GEMINI_API_KEY # "")
    /\ (last # "none" \/ delivered > 0 \/ outbound # <<>> => proc = "serving")
    /\ \A i \in DOMAIN outbound : outbound[i].key = GEMINI_API_KEY /\ outbound[i].key # ""
    /\ (proc = "failed" => ~env.set \/ env.value = "")

C9_Witness ==
    /\ Answered /\ proc = "serving" /\ GEMINI_API_KEY \in Keys
    /\ Len(outbound) = 2 /\ delivered = 1

(* C10: GET /health answers with the same fixed success payload whatever    *)
(* the configuration and the earlier requests were, and makes no outbound   *)
(* call.                                                                    *)
C10_HealthFixed ==
    [][(last = "none" /\ last' = "health") =>
          /\ resp'.status = 200
          /\ DOMAIN resp'.body = {"status", "version"}
          /\ resp'.body["status"] = "healthy"
          /\ resp'.body["version"] = "1.0.0"
          /\ outbound' = outbound]_vars

C10_Witness ==
    /\ last = "health" /\ delivered = 1 /\ Len(outbound) = 1
    /\ resp = health_check
====
